---- MODULE Spec2Model ----
(***************************************************************************)
(* Model of the MPLS Zed extension (src/lib.rs): the resolution of the     *)
(* language server executable by Mpls::language_server_command, through    *)
(* the cache, the ambient lookup (worktree.which), the online provisioner  *)
(* (when_online) and the offline provisioner (when_offline).               *)
(*                                                                         *)
(* Strings that the code builds, parses or matches (asset names, directory *)
(* names, paths, version strings) are sequences of one-character strings,  *)
(* so format!, the regex and parse() are computed on characters.           *)
(* A usize is its canonical decimal numeral (no leading zero), because the *)
(* values that overflow a usize do not fit the checker's integers.         *)
(***************************************************************************)
EXTENDS Integers, Sequences, FiniteSets, TLC

(***************************************************************************)
(* Bounds of the model.                                                    *)
(***************************************************************************)
\* the number of language_server_command calls the host makes in one run
MaxCalls == 2
\* the largest number of entries of the working directory at start
MaxEntries == 2

(***************************************************************************)
(* Characters and string literals.                                         *)
(***************************************************************************)
Digits == <<"0", "1", "2", "3", "4", "5", "6", "7", "8", "9">>

IsDigit(c) == \E k \in 1..10 : Digits[k] = c

DigitVal(c) == (CHOOSE k \in 1..10 : Digits[k] = c) - 1

S_mpls == <<"m", "p", "l", "s">>
S_linux == <<"l", "i", "n", "u", "x">>
S_darwin == <<"d", "a", "r", "w", "i", "n">>
S_windows == <<"w", "i", "n", "d", "o", "w", "s">>
S_arm64 == <<"a", "r", "m", "6", "4">>
S_amd64 == <<"a", "m", "d", "6", "4">>
S_zip == <<"z", "i", "p">>
S_targz == <<"t", "a", "r", ".", "g", "z">>
S_gz == <<"g", "z">>

\* Option<T>
None == [some |-> FALSE]

Some(v) == [some |-> TRUE, val |-> v]

\* Result<T, String>
Ok(v) == [ok |-> TRUE, val |-> v]

Err(e) == [ok |-> FALSE, err |-> e]

(***************************************************************************)
(* platform(), lines 5-18.                                                 *)
(***************************************************************************)
OsSet == {"Linux", "Mac", "Windows"}

ArchSet == {"Aarch64", "X86", "X8664"}

os_str(o) ==
  CASE o = "Linux" -> S_linux
    [] o = "Mac" -> S_darwin
    [] o = "Windows" -> S_windows

UnsupportedMsg(a) == a \o " is not supported by MPLS"

platform(o, a) ==
  CASE a = "Aarch64" -> Ok(<<os_str(o), S_arm64>>)
    [] a = "X8664" -> Ok(<<os_str(o), S_amd64>>)
    [] OTHER -> Err(UnsupportedMsg(a))

(***************************************************************************)
(* Name derivation of when_online, lines 67-92.                            *)
(***************************************************************************)
\* lines 68-72; the os token is one of the three platform() returns
file_type(os) ==
  IF os = S_windows THEN "Zip" ELSE "GzipTar"

\* lines 73-78
file_type_str(ft) ==
  CASE ft = "Zip" -> S_zip
    [] ft = "GzipTar" -> S_targz
    [] ft = "Gzip" -> S_gz
    [] OTHER -> <<>>

\* the version is interpolated as the registry gives it
StripPrefix_keep(version) == version

\* &release.version[1..]: the version without its first character (the
\* versions of Releases are not empty and start with an ASCII character)
StripPrefix(version) == Tail(version)

\* lines 79-85
archived_asset_name(version, os, arch) ==
  S_mpls \o <<"_">> \o StripPrefix(version) \o <<"_">> \o os \o <<"_">> \o arch
    \o <<".">> \o file_type_str(file_type(os))

\* lines 86-91
unarchived_asset_name(version, os, arch) ==
  S_mpls \o <<"_">> \o StripPrefix(version) \o <<"_">> \o os \o <<"_">> \o arch

\* line 92
executable_path(version, os, arch) ==
  unarchived_asset_name(version, os, arch) \o <<"/">> \o S_mpls

(***************************************************************************)
(* The regex of when_offline, lines 121-122 and 139:                       *)
(*   ^mpls_([0-9]+)\.([0-9]+)\.([0-9]+)_<os>_<arch>$                       *)
(* Every digit run is followed by a literal that is no digit, so the       *)
(* longest run is the only one a match can take.                           *)
(***************************************************************************)
RECURSIVE DigitRunEnd(_, _)
\* the first position at or after k of s that holds no digit
DigitRunEnd(s, k) ==
  IF k <= Len(s) /\ IsDigit(s[k]) THEN DigitRunEnd(s, k + 1) ELSE k

\* s holds the literal lit at position k
HasAt(s, k, lit) ==
  /\ k + Len(lit) - 1 <= Len(s)
  /\ SubSeq(s, k, k + Len(lit) - 1) = lit

\* unarchived_asset_regex.captures(dirname): None, or the three digit runs
captures(dirname, os, arch) ==
  LET pre == S_mpls \o <<"_">>
      suf == <<"_">> \o os \o <<"_">> \o arch
      a1 == Len(pre) + 1
      e1 == DigitRunEnd(dirname, a1)
      a2 == e1 + 1
      e2 == DigitRunEnd(dirname, a2)
      a3 == e2 + 1
      e3 == DigitRunEnd(dirname, a3)
  IN  IF /\ HasAt(dirname, 1, pre)
         /\ e1 > a1 /\ HasAt(dirname, e1, <<".">>)
         /\ e2 > a2 /\ HasAt(dirname, e2, <<".">>)
         /\ e3 > a3 /\ HasAt(dirname, e3, suf)
         /\ e3 + Len(suf) - 1 = Len(dirname)
      THEN Some(<<SubSeq(dirname, a1, e1 - 1),
                  SubSeq(dirname, a2, e2 - 1),
                  SubSeq(dirname, a3, e3 - 1)>>)
      ELSE None

(***************************************************************************)
(* usize: parse(), Ord and Display, lines 124, 141-153.                    *)
(***************************************************************************)
\* usize::MAX of the wasm32 target the extension is built for
USIZE_MAX == <<"4", "2", "9", "4", "9", "6", "7", "2", "9", "5">>

RECURSIVE StripZeros(_)
\* the numeral without its leading zeros ("0" for a run of zeros)
StripZeros(ds) ==
  IF Len(ds) > 1 /\ Head(ds) = "0" THEN StripZeros(Tail(ds)) ELSE ds

\* a < b, for canonical numerals
NumLess(a, b) ==
  \/ Len(a) < Len(b)
  \/ /\ Len(a) = Len(b)
     /\ \E k \in 1..Len(a) :
          /\ SubSeq(a, 1, k - 1) = SubSeq(b, 1, k - 1)
          /\ DigitVal(a[k]) < DigitVal(b[k])

\* str::parse::<usize>() of a run of ASCII digits
parse(ds) ==
  LET n == StripZeros(ds)
  IN  IF NumLess(USIZE_MAX, n)
      THEN Err("number too large to fit in target type")
      ELSE Ok(n)

\* a < b as strings of digits, not as numbers
StrLess(a, b) ==
  \E k \in 1..Len(b) :
    /\ k - 1 <= Len(a)
    /\ SubSeq(a, 1, k - 1) = SubSeq(b, 1, k - 1)
    /\ \/ k > Len(a)
       \/ DigitVal(a[k]) < DigitVal(b[k])

\* the triples compared as strings
TripleLess_strings(t, u) ==
  \/ StrLess(t[1], u[1])
  \/ t[1] = u[1] /\ StrLess(t[2], u[2])
  \/ t[1] = u[1] /\ t[2] = u[2] /\ StrLess(t[3], u[3])

\* Ord of (usize, usize, usize)
TripleLess(t, u) ==
  \/ NumLess(t[1], u[1])
  \/ t[1] = u[1] /\ NumLess(t[2], u[2])
  \/ t[1] = u[1] /\ t[2] = u[2] /\ NumLess(t[3], u[3])

RECURSIVE Insert(_, _)
Insert(sorted, t) ==
  IF sorted = <<>> THEN <<t>>
  ELSE IF TripleLess(t, Head(sorted)) THEN <<t>> \o sorted
  ELSE <<Head(sorted)>> \o Insert(Tail(sorted), t)

RECURSIVE sort(_)
\* version_triples.sort(), line 149
sort(v) ==
  IF v = <<>> THEN <<>> ELSE Insert(sort(SubSeq(v, 1, Len(v) - 1)), v[Len(v)])

\* version_triples.last(), line 150
last(v) == IF v = <<>> THEN None ELSE Some(v[Len(v)])

\* lines 151-154
offline_executable_path(t, os, arch) ==
  S_mpls \o <<"_">> \o t[1] \o <<".">> \o t[2] \o <<".">> \o t[3]
    \o <<"_">> \o os \o <<"_">> \o arch \o <<"/">> \o S_mpls

(***************************************************************************)
(* The loop of when_offline over the entries of the working directory,     *)
(* lines 124-147. A failed unwrap() is a panic.                            *)
(***************************************************************************)
Panic(msg) == [ok |-> FALSE, panic |-> msg]

IsPanic(r) == ~r.ok /\ "panic" \in DOMAIN r

InvalidUtf8Msg == "dirname contains invalid UTF-8 string"

ParseErrorMsg == "called Result::unwrap() on an Err value: ParseIntError"

Skip == [ok |-> TRUE, skip |-> TRUE]

\* the loop body without the is_dir() check
visit_any_kind(dir, os, arch) ==
  IF ~dir.utf8 THEN Err(InvalidUtf8Msg)
  ELSE LET c == captures(dir.name, os, arch)
       IN  IF ~c.some THEN Skip
           ELSE LET major == parse(c.val[1])
                    minor == parse(c.val[2])
                    patch == parse(c.val[3])
                IN  IF major.ok /\ minor.ok /\ patch.ok
                    THEN Ok(<<major.val, minor.val, patch.val>>)
                    ELSE Panic(ParseErrorMsg)

\* the body of the loop for one entry, lines 129-146: nothing to push, a
\* triple to push, an error, or a panic
visit(dir, os, arch) ==
  IF dir.kind # "dir" THEN Skip
  ELSE IF ~dir.utf8 THEN Err(InvalidUtf8Msg)
  ELSE LET c == captures(dir.name, os, arch)
       IN  IF ~c.some THEN Skip
           ELSE LET major == parse(c.val[1])
                    minor == parse(c.val[2])
                    patch == parse(c.val[3])
                IN  IF major.ok /\ minor.ok /\ patch.ok
                    THEN Ok(<<major.val, minor.val, patch.val>>)
                    ELSE Panic(ParseErrorMsg)

RECURSIVE scan(_, _)
\* the loop, lines 125-147, over what the entries still to visit give, with
\* version_triples so far
scan(visited, version_triples) ==
  IF visited = <<>> THEN Ok(version_triples)
  ELSE LET v == Head(visited)
       IN  IF ~v.ok THEN v
           ELSE IF "skip" \in DOMAIN v THEN scan(Tail(visited), version_triples)
           ELSE scan(Tail(visited), Append(version_triples, v.val))

NoInstallationMsg ==
  "No installation of MPLS has found. We can't install it because we have no internet connection."

\* lines 124-154 on one enumeration of the working directory: the path of the
\* latest installed version, an error, or a panic
latest_installed(visited, os, arch) ==
  LET scanned == scan(visited, <<>>)
  IN  IF ~scanned.ok THEN scanned
      ELSE LET latest_installed_version == last(sort(scanned.val))
           IN  IF ~latest_installed_version.some THEN Err(NoInstallationMsg)
               ELSE Ok(offline_executable_path(latest_installed_version.val, os, arch))

(***************************************************************************)
(* Decisions of find_language_server, when_online and                      *)
(* language_server_command.                                                *)
(***************************************************************************)
\* the cache is never consulted
already_installed_never(path) == FALSE

\* line 32: self.language_server_path.is_some()
already_installed(path) == path.some

\* lines 53-59: if let Ok(release) = release
is_online(release) == release.ok

\* the reuse check never succeeds
already_downloaded_never(exists) == FALSE

\* line 94: if let Ok(true) = fs::exists(&executable_path)
already_downloaded(exists) == exists.ok /\ exists.val = TRUE

AssetNotFoundMsg == "Can't find the executable in MPLS GitHub release."

RECURSIVE find(_, _)
\* lines 102-106: the first asset with the archived name
find(assets, name) ==
  IF assets = <<>> THEN None
  ELSE IF Head(assets).name = name THEN Some(Head(assets))
  ELSE find(Tail(assets), name)

\* two of the flags in the other order
command_args_swapped == <<"--enable-wikilinks", "--enable-emoji", "--enable-footnotes">>

\* line 188: the arguments of the command
command_args == <<"--enable-emoji", "--enable-wikilinks", "--enable-footnotes">>

Command(path) == [command |-> path, args |-> command_args]

ExpectMsg ==
  "This shouldn't happen. self.install_language_server() is supposed to make self.language_server_path not None"

\* lines 175-188: the status language_server_command broadcasts last and what it
\* returns, from what find_language_server returned and the cache it left
final_status(found) ==
  IF found.ok THEN [op |-> "status", status |-> "None"]
  ELSE [op |-> "status", status |-> "Failed", msg |-> found.err]

command_result(found, path) ==
  IF ~found.ok THEN Err(found.err)
  ELSE IF path.some THEN Ok(Command(path.val))
  ELSE Panic(ExpectMsg)

\* the path is cached before make_file_executable is checked
install_eager(made, path, cache) ==
  IF made.ok THEN [found |-> Ok("unit"), cache |-> Some(path)]
  ELSE [found |-> Err(made.err), cache |-> Some(path)]

\* the provisioner returns Ok(()) without the replace
install_forgetful(made, path, cache) ==
  IF made.ok THEN [found |-> Ok("unit"), cache |-> cache]
  ELSE [found |-> Err(made.err), cache |-> cache]

\* lines 96-98, 113-116 and 156-159: zed::make_file_executable(..)? and then
\* self.language_server_path.replace(executable_path)
install(made, path, cache) ==
  IF made.ok THEN [found |-> Ok("unit"), cache |-> Some(path)]
  ELSE [found |-> Err(made.err), cache |-> cache]

(***************************************************************************)
(* The environment: what the host, the registry and the working directory  *)
(* can answer.                                                             *)
(***************************************************************************)
Instances == {"a", "b"}

\* the platforms zed::current_platform() reports in the runs explored
Platforms ==
  {<<"Linux", "X8664">>, <<"Mac", "Aarch64">>, <<"Windows", "X8664">>, <<"Linux", "X86">>}

\* worktree.which("mpls") finds nothing or this path
WhichPath == <<"/", "b", "i", "n", "/", "m", "p", "l", "s">>

WhichResults == {None, Some(WhichPath)}

Ver(major, minor, patch) == major \o <<".">> \o minor \o <<".">> \o patch

V_1_2_0 == Ver(<<"1">>, <<"2">>, <<"0">>)
V_1_3_0 == Ver(<<"1">>, <<"3">>, <<"0">>)
V_1_12_0 == Ver(<<"1">>, <<"1", "2">>, <<"0">>)
V_01_3_0 == Ver(<<"0", "1">>, <<"3">>, <<"0">>)
V_2_0_0 == Ver(<<"2">>, <<"0">>, <<"0">>)
V_big == Ver(<<"4", "2", "9", "4", "9", "6", "7", "2", "9", "6">>, <<"0">>, <<"0">>)

\* the name of an asset or of a directory as it is written in the registry or
\* on disk
Named(ver, os, arch, ext) ==
  <<"m", "p", "l", "s", "_">> \o ver \o <<"_">> \o os \o <<"_">> \o arch \o ext

Asset(name) == [name |-> name, download_url |-> <<"u", ":">> \o name]

\* a release with an asset for each of the six platforms
Release_1_3_0 ==
  [version |-> <<"v">> \o V_1_3_0,
   assets |-> << Asset(Named(V_1_3_0, S_linux, S_amd64, <<".">> \o S_targz)),
                 Asset(Named(V_1_3_0, S_linux, S_arm64, <<".">> \o S_targz)),
                 Asset(Named(V_1_3_0, S_darwin, S_amd64, <<".">> \o S_targz)),
                 Asset(Named(V_1_3_0, S_darwin, S_arm64, <<".">> \o S_targz)),
                 Asset(Named(V_1_3_0, S_windows, S_amd64, <<".">> \o S_zip)),
                 Asset(Named(V_1_3_0, S_windows, S_arm64, <<".">> \o S_zip)) >>]

\* a release that lacks the assets of some platforms and has near misses
Release_1_12_0 ==
  [version |-> <<"v">> \o V_1_12_0,
   assets |-> << Asset(Named(V_1_12_0, S_linux, S_amd64, <<".">> \o S_targz \o <<".", "s", "i", "g">>)),
                 Asset(Named(V_1_12_0, S_linux, S_amd64, <<".">> \o S_targz)),
                 Asset(Named(V_1_12_0, S_darwin, S_arm64, <<".">> \o S_targz)),
                 Asset(Named(V_1_12_0, S_windows, S_amd64, <<".">> \o S_targz)) >>]

Releases == {Release_1_3_0, Release_1_12_0}

RegistryError == "failed to fetch release"

\* zed::latest_github_release answers
ReleaseResults == {Err(RegistryError)} \cup {Ok(r) : r \in Releases}

\* an entry of the working directory: exe says that <name>/mpls exists
Entry(name, kind, utf8, exe) == [name |-> name, kind |-> kind, utf8 |-> utf8, exe |-> exe]

Candidates ==
  { Entry(Named(V_1_2_0, S_linux, S_amd64, <<>>), "dir", TRUE, TRUE),
    Entry(Named(V_1_3_0, S_linux, S_amd64, <<>>), "dir", TRUE, TRUE),
    Entry(Named(V_1_3_0, S_linux, S_amd64, <<>>), "dir", TRUE, FALSE),
    Entry(Named(V_1_12_0, S_linux, S_amd64, <<>>), "dir", TRUE, TRUE),
    Entry(Named(V_1_12_0, S_darwin, S_arm64, <<>>), "dir", TRUE, TRUE),
    Entry(Named(V_01_3_0, S_linux, S_amd64, <<>>), "dir", TRUE, TRUE),
    Entry(Named(V_big, S_linux, S_amd64, <<>>), "dir", TRUE, TRUE),
    Entry(Named(V_2_0_0, S_linux, S_amd64, <<>>), "file", TRUE, FALSE),
    Entry(Named(V_2_0_0, S_linux, S_amd64, <<"x">>), "dir", TRUE, TRUE),
    Entry(<<"?">>, "dir", FALSE, FALSE) }

\* no two entries of a directory have the same name
UniqueNames(dir) == \A d, e \in dir : d.name = e.name => d = e

WorkingDirs ==
  {dir \in SUBSET Candidates : Cardinality(dir) <= MaxEntries /\ UniqueNames(dir)}

RECURSIVE Enumerations(_)
\* the orders in which read_dir can enumerate a directory
Enumerations(dir) ==
  IF dir = {} THEN {<<>>}
  ELSE UNION {{<<d>> \o en : en \in Enumerations(dir \ {d})} : d \in dir}

\* fs::exists(path) on the working directory, when it does not fail
exists(dir, path) == \E d \in dir : d.kind = "dir" /\ d.exe /\ d.name \o <<"/">> \o S_mpls = path

IoError == "io error"

ExistsResults(dir, path) == {Ok(exists(dir, path)), Err(IoError)}

DownloadError == "failed to download file"

MakeExecutableResults == {Ok("unit"), Err("failed to make file executable")}

\* the working directory after download_file unpacked into dest
unpacked(dir, dest, exe) ==
  {d \in dir : d.name # dest} \cup {Entry(dest, "dir", TRUE, exe)}

\* what lines 124-154 can give on the working directory dir, over the orders
\* in which read_dir can enumerate it
offline_outcomes(dir, os, arch) ==
  LET seen == [d \in dir |-> visit(d, os, arch)]
  IN  {latest_installed([k \in 1..Len(en) |-> seen[en[k]]], os, arch) :
         en \in Enumerations(dir)}

(***************************************************************************)
(* State.                                                                  *)
(***************************************************************************)
VARIABLES
  os,                   \* zed::current_platform(): the operating system
  arch,                 \* zed::current_platform(): the architecture
  fs,                   \* the entries of the working directory
  language_server_path, \* Mpls.language_server_path of each instance
  pc,                   \* where each instance is in language_server_command
  calls,                \* language_server_command calls made so far
  log,                  \* host and filesystem operations of the current call, in order
  result,               \* what the last call returned
  release,              \* the local release of find_language_server
  executable,           \* the local executable_path awaiting make_file_executable
  pre,                  \* language_server_path when the current call began
  prev_ok,              \* the path the previous call returned, if it succeeded
  fs_at_call            \* the working directory when the current call began

vars == <<os, arch, fs, language_server_path, pc, calls, log, result, release,
          executable, pre, prev_ok, fs_at_call>>

\* Mpls::new, lines 164-168
new == [language_server_path |-> None]

Init ==
  /\ \E p \in Platforms : os = p[1] /\ arch = p[2]
  /\ fs \in WorkingDirs
  /\ language_server_path = [i \in Instances |-> new.language_server_path]
  /\ pc = [i \in Instances |-> "idle"]
  /\ calls = 0
  /\ log = [i \in Instances |-> <<>>]
  /\ result = [i \in Instances |-> None]
  /\ release = [i \in Instances |-> None]
  /\ executable = [i \in Instances |-> None]
  /\ pre = [i \in Instances |-> None]
  /\ prev_ok = [i \in Instances |-> None]
  /\ fs_at_call = [i \in Instances |-> {}]

Status(st) == [op |-> "status", status |-> st]

\* find_language_server returned found with the cache at path: lines 175-188
Return(i, found, path, lg) ==
  LET r == command_result(found, path)
  IN  /\ language_server_path' = [language_server_path EXCEPT ![i] = path]
      /\ log' = [log EXCEPT ![i] = Append(lg, final_status(found))]
      /\ result' = [result EXCEPT ![i] = Some(r)]
      /\ pc' = [pc EXCEPT ![i] = IF IsPanic(r) THEN "panicked" ELSE "done"]
      /\ release' = [release EXCEPT ![i] = None]
      /\ executable' = [executable EXCEPT ![i] = None]

\* an unwrap() of find_language_server panicked: the call never returns
Abort(i, r, lg) ==
  /\ log' = [log EXCEPT ![i] = lg]
  /\ result' = [result EXCEPT ![i] = Some(r)]
  /\ pc' = [pc EXCEPT ![i] = "panicked"]
  /\ release' = [release EXCEPT ![i] = None]
  /\ executable' = [executable EXCEPT ![i] = None]
  /\ UNCHANGED language_server_path

\* the next step of find_language_server is at label
Goto(i, label, lg) ==
  /\ pc' = [pc EXCEPT ![i] = label]
  /\ log' = [log EXCEPT ![i] = lg]
  /\ UNCHANGED <<language_server_path, result>>

\* a call that follows a failed call returns the error of that call again
Call_sticky(i) ==
  /\ pc[i] \in {"idle", "done"}
  /\ calls < MaxCalls
  /\ calls' = calls + 1
  /\ pre' = [pre EXCEPT ![i] = language_server_path[i]]
  /\ prev_ok' = [prev_ok EXCEPT ![i] =
                   IF result[i].some /\ result[i].val.ok
                   THEN Some(result[i].val.val.command) ELSE None]
  /\ fs_at_call' = [fs_at_call EXCEPT ![i] = fs]
  /\ IF already_installed(language_server_path[i])
     THEN Return(i, Ok("unit"), language_server_path[i], <<>>)
     ELSE IF result[i].some /\ ~result[i].val.ok
     THEN Return(i, Err(result[i].val.err), language_server_path[i], <<>>)
     ELSE /\ Goto(i, "which", <<>>)
          /\ UNCHANGED <<release, executable>>
  /\ UNCHANGED <<os, arch, fs>>

\* the host calls language_server_command; lines 170-175 and 31-34
Call(i) ==
  /\ pc[i] \in {"idle", "done"}
  /\ calls < MaxCalls
  /\ calls' = calls + 1
  /\ pre' = [pre EXCEPT ![i] = language_server_path[i]]
  /\ prev_ok' = [prev_ok EXCEPT ![i] =
                   IF result[i].some /\ result[i].val.ok
                   THEN Some(result[i].val.val.command) ELSE None]
  /\ fs_at_call' = [fs_at_call EXCEPT ![i] = fs]
  /\ IF already_installed(language_server_path[i])
     THEN Return(i, Ok("unit"), language_server_path[i], <<>>)
     ELSE /\ Goto(i, "which", <<>>)
          /\ UNCHANGED <<release, executable>>
  /\ UNCHANGED <<os, arch, fs>>

\* the CheckingForUpdate status is broadcast before the ambient lookup
Which_status_first(i) ==
  /\ pc[i] = "which"
  /\ \E found \in WhichResults :
       LET lg == log[i] \o <<Status("CheckingForUpdate"), [op |-> "which", res |-> found]>>
       IN  IF found.some
           THEN Return(i, Ok("unit"), Some(found.val), lg)
           ELSE /\ Goto(i, "release", lg)
                /\ UNCHANGED <<release, executable>>
  /\ UNCHANGED <<os, arch, fs, calls, pre, prev_ok, fs_at_call>>

\* lines 36-45: worktree.which, then the CheckingForUpdate status
Which(i) ==
  /\ pc[i] = "which"
  /\ \E found \in WhichResults :
       LET lg == Append(log[i], [op |-> "which", res |-> found])
       IN  IF found.some
           THEN Return(i, Ok("unit"), Some(found.val), lg)
           ELSE /\ Goto(i, "release", Append(lg, Status("CheckingForUpdate")))
                /\ UNCHANGED <<release, executable>>
  /\ UNCHANGED <<os, arch, fs, calls, pre, prev_ok, fs_at_call>>

\* lines 46-59: zed::latest_github_release and the choice of the provisioner
LatestRelease(i) ==
  /\ pc[i] = "release"
  /\ \E r \in ReleaseResults :
       /\ release' = [release EXCEPT ![i] = Some(r)]
       /\ Goto(i, IF is_online(r) THEN "when_online" ELSE "when_offline",
               log[i] \o <<[op |-> "latest_github_release", res |-> r],
                           [op |-> IF is_online(r) THEN "when_online" ELSE "when_offline"]>>)
  /\ UNCHANGED <<os, arch, fs, calls, executable, pre, prev_ok, fs_at_call>>

\* when_online, lines 67-94: platform(), the names, fs::exists
OnlineExists(i) ==
  /\ pc[i] = "when_online"
  /\ LET p == platform(os, arch)
     IN  IF ~p.ok
         THEN Return(i, Err(p.err), language_server_path[i], log[i])
         ELSE LET path == executable_path(release[i].val.val.version, p.val[1], p.val[2])
              IN  \E ex \in ExistsResults(fs, path) :
                    /\ executable' = [executable EXCEPT ![i] = Some(path)]
                    /\ Goto(i, IF already_downloaded(ex) THEN "reuse" ELSE "asset",
                            Append(log[i], [op |-> "exists", path |-> path, res |-> ex]))
                    /\ UNCHANGED release
  /\ UNCHANGED <<os, arch, fs, calls, pre, prev_ok, fs_at_call>>

\* when_online, lines 95-98: the language server is already downloaded
OnlineReuse(i) ==
  /\ pc[i] = "reuse"
  /\ \E made \in MakeExecutableResults :
       LET out == install(made, executable[i].val, language_server_path[i])
       IN  Return(i, out.found, out.cache,
                  Append(log[i], [op |-> "make_file_executable",
                                  path |-> executable[i].val, res |-> made]))
  /\ UNCHANGED <<os, arch, fs, calls, pre, prev_ok, fs_at_call>>

\* a missing asset falls back to the offline provisioner
OnlineFindAsset_fallback(i) ==
  /\ pc[i] = "asset"
  /\ LET p == platform(os, arch)
         rel == release[i].val.val
         name == archived_asset_name(rel.version, p.val[1], p.val[2])
         asset == find(rel.assets, name)
         lg == Append(log[i], [op |-> "find_asset", name |-> name, res |-> asset])
     IN  /\ IF ~asset.some
            THEN Goto(i, "when_offline", Append(lg, [op |-> "when_offline"]))
            ELSE Goto(i, "download", Append(lg, Status("Downloading")))
         /\ UNCHANGED <<release, executable>>
  /\ UNCHANGED <<os, arch, fs, calls, pre, prev_ok, fs_at_call>>

\* the download starts without the Downloading status
OnlineFindAsset_silent(i) ==
  /\ pc[i] = "asset"
  /\ LET p == platform(os, arch)
         rel == release[i].val.val
         name == archived_asset_name(rel.version, p.val[1], p.val[2])
         asset == find(rel.assets, name)
         lg == Append(log[i], [op |-> "find_asset", name |-> name, res |-> asset])
     IN  IF ~asset.some
         THEN Return(i, Err(AssetNotFoundMsg), language_server_path[i], lg)
         ELSE /\ Goto(i, "download", lg)
              /\ UNCHANGED <<release, executable>>
  /\ UNCHANGED <<os, arch, fs, calls, pre, prev_ok, fs_at_call>>

\* when_online, lines 102-110: the asset and the Downloading status
OnlineFindAsset(i) ==
  /\ pc[i] = "asset"
  /\ LET p == platform(os, arch)
         rel == release[i].val.val
         name == archived_asset_name(rel.version, p.val[1], p.val[2])
         asset == find(rel.assets, name)
         lg == Append(log[i], [op |-> "find_asset", name |-> name, res |-> asset])
     IN  IF ~asset.some
         THEN Return(i, Err(AssetNotFoundMsg), language_server_path[i], lg)
         ELSE /\ Goto(i, "download", Append(lg, Status("Downloading")))
              /\ UNCHANGED <<release, executable>>
  /\ UNCHANGED <<os, arch, fs, calls, pre, prev_ok, fs_at_call>>

\* the download is skipped when the executable has appeared since line 94
OnlineDownload_recheck(i) ==
  /\ pc[i] = "download"
  /\ LET p == platform(os, arch)
         rel == release[i].val.val
         asset == find(rel.assets, archived_asset_name(rel.version, p.val[1], p.val[2]))
         dest == unarchived_asset_name(rel.version, p.val[1], p.val[2])
         ev(res) == [op |-> "download_file",
                     url |-> asset.val.download_url,
                     dest |-> dest,
                     file_type |-> file_type(p.val[1]),
                     res |-> res]
     IN  IF exists(fs, executable[i].val)
         THEN /\ Goto(i, "downloaded", log[i])
              /\ UNCHANGED <<fs, release, executable>>
         ELSE \/ /\ fs' \in {fs, unpacked(fs, dest, FALSE)}
                 /\ Return(i, Err(DownloadError), language_server_path[i],
                           Append(log[i], ev(Err(DownloadError))))
              \/ /\ \E exe \in BOOLEAN : fs' = unpacked(fs, dest, exe)
                 /\ Goto(i, "downloaded", Append(log[i], ev(Ok("unit"))))
                 /\ UNCHANGED <<release, executable>>
  /\ UNCHANGED <<os, arch, calls, pre, prev_ok, fs_at_call>>

\* when_online, line 111: zed::download_file
OnlineDownload(i) ==
  /\ pc[i] = "download"
  /\ LET p == platform(os, arch)
         rel == release[i].val.val
         asset == find(rel.assets, archived_asset_name(rel.version, p.val[1], p.val[2]))
         dest == unarchived_asset_name(rel.version, p.val[1], p.val[2])
         ev(res) == [op |-> "download_file",
                     url |-> asset.val.download_url,
                     dest |-> dest,
                     file_type |-> file_type(p.val[1]),
                     res |-> res]
     IN  \/ \* the download failed, with nothing or a directory without the
            \* executable left behind
            /\ fs' \in {fs, unpacked(fs, dest, FALSE)}
            /\ Return(i, Err(DownloadError), language_server_path[i],
                      Append(log[i], ev(Err(DownloadError))))
         \/ \* the archive was unpacked into dest
            /\ \E exe \in BOOLEAN : fs' = unpacked(fs, dest, exe)
            /\ Goto(i, "downloaded", Append(log[i], ev(Ok("unit"))))
            /\ UNCHANGED <<release, executable>>
  /\ UNCHANGED <<os, arch, calls, pre, prev_ok, fs_at_call>>

\* when_online, lines 113-116
OnlineMakeExecutable(i) ==
  /\ pc[i] = "downloaded"
  /\ \E made \in MakeExecutableResults :
       LET out == install(made, executable[i].val, language_server_path[i])
       IN  Return(i, out.found, out.cache,
                  Append(log[i], [op |-> "make_file_executable",
                                  path |-> executable[i].val, res |-> made]))
  /\ UNCHANGED <<os, arch, fs, calls, pre, prev_ok, fs_at_call>>

\* when_offline, lines 120-154: platform(), the scan of the working directory
OfflineScan(i) ==
  /\ pc[i] = "when_offline"
  /\ LET p == platform(os, arch)
         lg == Append(log[i], [op |-> "read_dir", res |-> Ok("unit")])
     IN  IF ~p.ok
         THEN Return(i, Err(p.err), language_server_path[i], log[i])
         ELSE \/ \* current_dir or read_dir failed
                 Return(i, Err(IoError), language_server_path[i],
                        Append(log[i], [op |-> "read_dir", res |-> Err(IoError)]))
              \/ \E latest \in offline_outcomes(fs, p.val[1], p.val[2]) :
                       IF IsPanic(latest) THEN Abort(i, latest, lg)
                       ELSE IF ~latest.ok
                       THEN Return(i, Err(latest.err), language_server_path[i], lg)
                       ELSE /\ executable' = [executable EXCEPT ![i] = Some(latest.val)]
                            /\ Goto(i, "installed", lg)
                            /\ UNCHANGED release
  /\ UNCHANGED <<os, arch, fs, calls, pre, prev_ok, fs_at_call>>

\* when_offline, lines 156-159
OfflineMakeExecutable(i) ==
  /\ pc[i] = "installed"
  /\ \E made \in MakeExecutableResults :
       LET out == install(made, executable[i].val, language_server_path[i])
       IN  Return(i, out.found, out.cache,
                  Append(log[i], [op |-> "make_file_executable",
                                  path |-> executable[i].val, res |-> made]))
  /\ UNCHANGED <<os, arch, fs, calls, pre, prev_ok, fs_at_call>>

\* the host runs one extension instance, whose calls do not overlap
Next ==
  \/ Call("a")
  \/ Which("a")
  \/ LatestRelease("a")
  \/ OnlineExists("a")
  \/ OnlineReuse("a")
  \/ OnlineFindAsset("a")
  \/ OnlineDownload("a")
  \/ OnlineMakeExecutable("a")
  \/ OfflineScan("a")
  \/ OfflineMakeExecutable("a")

Spec == Init /\ [][Next]_vars

(***************************************************************************)
(* Properties.                                                             *)
(***************************************************************************)
\* the events of the current call of instance i
Events(i) == {log[i][k] : k \in DOMAIN log[i]}

Ops(i) == {e.op : e \in Events(i)}

EventsOf(i, op) == {e \in Events(i) : e.op = op}

\* the operations that reach the worktree, the registry or the filesystem
IoOps ==
  {"which", "latest_github_release", "exists", "read_dir", "download_file",
   "make_file_executable"}

Done(i) == pc[i] = "done"

\* C1: a call that follows a successful call of the same instance returns the
\* path that call returned and performs no lookup, registry query, filesystem
\* access, download or make-executable call.
C1_Idempotent ==
  \A i \in Instances :
    Done(i) /\ prev_ok[i].some =>
      /\ result[i].val.ok
      /\ result[i].val.val.command = prev_ok[i].val
      /\ language_server_path[i] = Some(prev_ok[i].val)
      /\ Ops(i) \cap IoOps = {}
      /\ log[i] = <<Status("None")>>

C1_Witness ==
  /\ Done("a") /\ prev_ok["a"].some /\ calls = 2
  /\ result["a"].val.ok
  /\ result["a"].val.val.command # WhichPath

\* C2: the cache is unset at construction and, once it holds a path, holds
\* that path in every later state.
C2_SetOnce ==
  /\ \A i \in Instances : language_server_path[i] = None
  /\ [][\A i \in Instances :
          language_server_path[i].some =>
            language_server_path'[i] = language_server_path[i]]_vars

C2_Witness ==
  /\ Done("a") /\ pre["a"].some /\ language_server_path["a"] = Some(WhichPath)

\* C3: when_offline is entered in a call exactly when the registry query of
\* that call failed; a call that entered when_online never enumerates the
\* working directory, and a failure of its asset lookup, download or
\* make-executable call is the error the call returns.
C3_FallbackOnlyOnRegistryFailure ==
  \A i \in Instances :
    /\ "when_offline" \in Ops(i) <=>
         \E e \in EventsOf(i, "latest_github_release") : ~e.res.ok
    /\ "when_online" \in Ops(i) =>
         /\ "read_dir" \notin Ops(i)
         /\ "when_offline" \notin Ops(i)
         /\ \A e \in Events(i) :
              /\ e.op = "find_asset" /\ ~e.res.some =>
                   Done(i) /\ result[i].val = Err(AssetNotFoundMsg)
              /\ e.op \in {"download_file", "make_file_executable"} /\ ~e.res.ok =>
                   Done(i) /\ result[i].val = Err(e.res.err)

C3_Witness ==
  /\ Done("a")
  /\ \E e \in EventsOf("a", "find_asset") : ~e.res.some
  /\ fs # {}

\* C4 (as claimed): on an unsupported architecture every call fails with the
\* unsupported-architecture error and nothing but the Failed status happens
\* in it: no ambient lookup, no other status, no registry query, no
\* filesystem access, no download.
C4_PlatformCheckFirst ==
  \A i \in Instances :
    Done(i) /\ ~platform(os, arch).ok =>
      /\ result[i].val = Err(UnsupportedMsg(arch))
      /\ Ops(i) \cap IoOps = {}
      /\ log[i] = <<[op |-> "status", status |-> "Failed", msg |-> UnsupportedMsg(arch)]>>

\* the release the registry gave in the current call of instance i
ReleaseOf(i) == (CHOOSE e \in EventsOf(i, "latest_github_release") : TRUE).res.val

\* the directory a release is unpacked into on the current platform, written
\* out: mpls_<version without its first character>_<os>_<arch>
UnpackedDir(rel) ==
  Named(Tail(rel.version), platform(os, arch).val[1], platform(os, arch).val[2], <<>>)

InDir(name) == name \o <<"/", "m", "p", "l", "s">>

\* C5 (as claimed): a call that reaches when_online while the unarchived
\* directory of the release exists downloads nothing, broadcasts no
\* Downloading status, does not consult the asset list and returns the path
\* of the executable in that directory.
C5_ReuseWhenDirectoryExists ==
  \A i \in Instances :
    Done(i) /\ "when_online" \in Ops(i) /\ platform(os, arch).ok =>
      ((\E d \in fs_at_call[i] : d.kind = "dir" /\ d.name = UnpackedDir(ReleaseOf(i))) =>
         /\ "download_file" \notin Ops(i)
         /\ "find_asset" \notin Ops(i)
         /\ Status("Downloading") \notin Events(i)
         /\ result[i].val = Ok(Command(InDir(UnpackedDir(ReleaseOf(i))))))

\* C5 (amended): when fs::exists reports that the executable in the unarchived
\* directory of the release exists, the call downloads nothing, broadcasts no
\* Downloading status, does not consult the asset list, and returns the path
\* of that executable if make_file_executable succeeds and its error if not.
C5_ReuseWhenExecutableExists ==
  \A i \in Instances :
    \A e \in EventsOf(i, "exists") :
      /\ e.path = InDir(UnpackedDir(ReleaseOf(i)))
      /\ e.res = Ok(TRUE) =>
           /\ \E d \in fs_at_call[i] : d.kind = "dir" /\ d.exe /\ InDir(d.name) = e.path
           /\ "download_file" \notin Ops(i)
           /\ "find_asset" \notin Ops(i)
           /\ Status("Downloading") \notin Events(i)
           /\ fs = fs_at_call[i]
           /\ Done(i) =>
                \E m \in EventsOf(i, "make_file_executable") :
                  /\ m.path = e.path
                  /\ result[i].val = IF m.res.ok THEN Ok(Command(e.path)) ELSE Err(m.res.err)

C5_Witness ==
  /\ Done("a")
  /\ \E e \in EventsOf("a", "exists") : e.res = Ok(TRUE)
  /\ result["a"].val.ok

\* the version triples of the directory names that occur, as written
Triples ==
  { <<<<"1">>, <<"2">>, <<"0">>>>, <<<<"1">>, <<"3">>, <<"0">>>>,
    <<<<"1">>, <<"1", "2">>, <<"0">>>>, <<<<"0", "1">>, <<"3">>, <<"0">>>>,
    <<<<"2">>, <<"0">>, <<"0">>>>,
    <<<<"4", "2", "9", "4", "9", "6", "7", "2", "9", "6">>, <<"0">>, <<"0">>>> }

\* those whose numbers are below 10^9
SmallTriples == {t \in Triples : \A k \in 1..3 : Len(t[k]) <= 9}

RECURSIVE IntVal(_)
\* the number a run of digits denotes
IntVal(ds) ==
  IF ds = <<>> THEN 0 ELSE 10 * IntVal(SubSeq(ds, 1, Len(ds) - 1)) + DigitVal(ds[Len(ds)])

\* t <= u in the lexicographic order of (major, minor, patch)
TripleLeq(t, u) ==
  LET a == <<IntVal(t[1]), IntVal(t[2]), IntVal(t[3])>>
      b == <<IntVal(u[1]), IntVal(u[2]), IntVal(u[3])>>
  IN  \/ a[1] < b[1]
      \/ a[1] = b[1] /\ a[2] < b[2]
      \/ a[1] = b[1] /\ a[2] = b[2] /\ a[3] <= b[3]

\* the triples of the directories of dir named mpls_<triple>_<os>_<arch> for
\* the current platform
Installed(dir) ==
  {t \in Triples :
     \E d \in dir :
       /\ d.kind = "dir" /\ d.utf8
       /\ d.name = Named(Ver(t[1], t[2], t[3]), platform(os, arch).val[1],
                         platform(os, arch).val[2], <<>>)}

Unreachable(i) == \E e \in EventsOf(i, "latest_github_release") : ~e.res.ok

C8_FailureKeepsCache ==
  \A i \in Instances :
    Done(i) /\ ~result[i].val.ok =>
      /\ language_server_path[i] = pre[i]
      /\ language_server_path[i] = None

C8_Witness ==
  /\ Done("a") /\ ~result["a"].val.ok
  /\ \E m \in EventsOf("a", "make_file_executable") : ~m.res.ok
  /\ "download_file" \in Ops("a")

\* C9: a call that starts with the cache unset and whose ambient lookup finds
\* an executable caches that path, returns it, and does nothing else but
\* clear the status.
C9_AmbientShortcut ==
  \A i \in Instances :
    \A e \in EventsOf(i, "which") :
      e.res.some =>
        /\ Done(i)
        /\ ~pre[i].some
        /\ language_server_path[i] = Some(e.res.val)
        /\ result[i].val = Ok([command |-> e.res.val,
                               args |-> <<"--enable-emoji", "--enable-wikilinks",
                                          "--enable-footnotes">>])
        /\ log[i] = <<e, Status("None")>>
        /\ fs = fs_at_call[i]

C9_Witness ==
  /\ Done("a") /\ calls = 2
  /\ \E e \in EventsOf("a", "which") : e.res.some
  /\ fs # {}

\* C10: every call that succeeds returns the cached path as the executable
\* and exactly --enable-emoji, --enable-wikilinks, --enable-footnotes as the
\* arguments.
C10_FixedFlags ==
  \A i \in Instances :
    Done(i) /\ result[i].val.ok =>
      /\ language_server_path[i].some
      /\ result[i].val.val.command = language_server_path[i].val
      /\ result[i].val.val.args =
           <<"--enable-emoji", "--enable-wikilinks", "--enable-footnotes">>

C10_Witness ==
  /\ Done("a") /\ result["a"].val.ok
  /\ "read_dir" \in Ops("a")
  /\ Len(result["a"].val.val.args) = 3

\* the call of instance i is over: it returned or it panicked
Over(i) == pc[i] \in {"done", "panicked"}

\* the call of instance i returned an error
ReturnedErr(i) == Done(i) /\ ~result[i].val.ok

\* the last status the current call of instance i broadcast
LastStatus(i) ==
  LET ks == {k \in DOMAIN log[i] : log[i][k].op = "status"}
  IN  IF ks = {} THEN None
      ELSE Some(log[i][CHOOSE k \in ks : \A j \in ks : j <= k])

\* C11 (as claimed): when a call is over, the last status it broadcast is
\* Failed(message) exactly if it returned an error, with the error as the
\* message, and None if not; it is never CheckingForUpdate or Downloading.
C11_FinalStatusMatchesOutcome ==
  \A i \in Instances :
    Over(i) =>
      /\ LastStatus(i).some
      /\ LastStatus(i).val.status = "Failed" <=> ReturnedErr(i)
      /\ ReturnedErr(i) => LastStatus(i).val.msg = result[i].val.err
      /\ ~ReturnedErr(i) => LastStatus(i).val.status = "None"
      /\ LastStatus(i).val.status \notin {"CheckingForUpdate", "Downloading"}

\* the positions of the log of instance i that hold event e
At(i, e) == {k \in DOMAIN log[i] : log[i][k] = e}

\* the asset name of a release for the current platform, written out
ArchiveName(rel) ==
  Named(Tail(rel.version), platform(os, arch).val[1], platform(os, arch).val[2],
        IF os = "Windows" THEN <<".", "z", "i", "p">>
        ELSE <<".", "t", "a", "r", ".", "g", "z">>)

\* C12: every download_file is preceded in its call by a Downloading status,
\* itself preceded by the CheckingForUpdate status; Downloading is broadcast
\* only right after an asset with exactly the archived name was found, and
\* never in a call that reuses a download, finds an ambient executable or
\* goes offline.
C12_DownloadingBeforeDownload ==
  \A i \in Instances :
    /\ \A k \in DOMAIN log[i] :
         log[i][k].op = "download_file" =>
           \E j \in At(i, Status("Downloading")) :
             /\ j < k
             /\ \E h \in At(i, Status("CheckingForUpdate")) : h < j
    /\ \A j \in At(i, Status("Downloading")) :
         /\ j > 1
         /\ log[i][j - 1].op = "find_asset"
         /\ log[i][j - 1].res.some
         /\ log[i][j - 1].res.val.name = ArchiveName(ReleaseOf(i))
         /\ "when_offline" \notin Ops(i)
         /\ \A e \in Events(i) :
              /\ e.op = "which" => ~e.res.some
              /\ e.op = "exists" => e.res # Ok(TRUE)
    /\ Cardinality(At(i, Status("Downloading"))) <= 1

C12_Witness ==
  /\ \E e \in EventsOf("a", "download_file") : e.res.ok
  /\ os = "Windows"
  /\ pc["a"] = "downloaded"

(***************************************************************************)
(* when_online as a function of the platform and of the release: it is     *)
(* entered with each platform and each release of NameReleases, in an      *)
(* empty working directory.                                                *)
(***************************************************************************)
V_1_2_3 == Ver(<<"1">>, <<"2">>, <<"3">>)
V_0_16_0 == Ver(<<"0">>, <<"1", "6">>, <<"0">>)

NameVersions == {V_1_2_3, V_0_16_0, V_1_12_0, V_01_3_0}

\* the os and arch tokens of the six platforms a release is built for
PlatformTokens ==
  << <<S_linux, S_amd64>>, <<S_linux, S_arm64>>, <<S_darwin, S_amd64>>,
     <<S_darwin, S_arm64>>, <<S_windows, S_amd64>>, <<S_windows, S_arm64>> >>

\* the extension of the archive a release carries for an os
ExtOf(ostoken) ==
  IF ostoken = S_windows THEN <<".", "z", "i", "p">>
  ELSE <<".", "t", "a", "r", ".", "g", "z">>

\* the six archives of version v
ExactAssets(v) ==
  [k \in 1..6 |-> Asset(Named(v, PlatformTokens[k][1], PlatformTokens[k][2],
                              ExtOf(PlatformTokens[k][1])))]

\* assets whose names are close to the archives of version v: signatures,
\* names that keep the prefix of the tag, archives of the other kind
NearAssets(v) ==
  [k \in 1..6 |-> Asset(Named(v, PlatformTokens[k][1], PlatformTokens[k][2],
                              ExtOf(PlatformTokens[k][1]) \o <<".", "s", "i", "g">>))]
  \o [k \in 1..6 |-> Asset(Named(<<"v">> \o v, PlatformTokens[k][1], PlatformTokens[k][2],
                                 ExtOf(PlatformTokens[k][1])))]
  \o [k \in 1..6 |-> Asset(Named(v, PlatformTokens[k][1], PlatformTokens[k][2],
                                 IF PlatformTokens[k][1] = S_windows
                                 THEN ExtOf(S_linux) ELSE ExtOf(S_windows)))]

NameReleases ==
  UNION {{[version |-> <<"v">> \o v, assets |-> ExactAssets(v)],
          [version |-> <<"v">> \o v, assets |-> NearAssets(v)],
          [version |-> <<"v">> \o v, assets |-> NearAssets(v) \o ExactAssets(v)]}
         : v \in NameVersions}

\* instance "a" is about to enter when_online with a release of NameReleases
InitNames ==
  /\ os \in OsSet
  /\ arch \in ArchSet
  /\ fs = {}
  /\ language_server_path = [i \in Instances |-> new.language_server_path]
  /\ pc = [i \in Instances |-> IF i = "a" THEN "when_online" ELSE "idle"]
  /\ calls = 1
  /\ \E r \in NameReleases :
       /\ release = [i \in Instances |-> IF i = "a" THEN Some(Ok(r)) ELSE None]
       /\ log = [i \in Instances |->
                   IF i = "a"
                   THEN <<[op |-> "which", res |-> None],
                          Status("CheckingForUpdate"),
                          [op |-> "latest_github_release", res |-> Ok(r)],
                          [op |-> "when_online"]>>
                   ELSE <<>>]
  /\ result = [i \in Instances |-> None]
  /\ executable = [i \in Instances |-> None]
  /\ pre = [i \in Instances |-> None]
  /\ prev_ok = [i \in Instances |-> None]
  /\ fs_at_call = [i \in Instances |-> {}]

NextNames ==
  \/ OnlineExists("a")
  \/ OnlineFindAsset("a")
  \/ OnlineDownload("a")
  \/ OnlineMakeExecutable("a")

SpecNames == InitNames /\ [][NextNames]_vars

\* the os token of a file name, written out
OsName ==
  CASE os = "Linux" -> <<"l", "i", "n", "u", "x">>
    [] os = "Mac" -> <<"d", "a", "r", "w", "i", "n">>
    [] os = "Windows" -> <<"w", "i", "n", "d", "o", "w", "s">>

\* the arch token of a file name, written out
ArchName ==
  CASE arch = "Aarch64" -> <<"a", "r", "m", "6", "4">>
    [] arch = "X8664" -> <<"a", "m", "d", "6", "4">>

\* the extension of the archive, written out
ExtName ==
  IF os = "Windows" THEN <<".", "z", "i", "p">>
  ELSE <<".", "t", "a", "r", ".", "g", "z">>

\* the three names when_online derives from the tag of a release
ArchivedOf(rel) == Named(Tail(rel.version), OsName, ArchName, ExtName)

UnarchivedOf(rel) == Named(Tail(rel.version), OsName, ArchName, <<>>)

ExecutableOf(rel) == UnarchivedOf(rel) \o <<"/", "m", "p", "l", "s">>

\* the names of the example: v1.2.3 on (linux, amd64)
Example_archive ==
  <<"m", "p", "l", "s", "_", "1", ".", "2", ".", "3", "_", "l", "i", "n", "u", "x",
    "_", "a", "m", "d", "6", "4", ".", "t", "a", "r", ".", "g", "z">>

Example_executable ==
  <<"m", "p", "l", "s", "_", "1", ".", "2", ".", "3", "_", "l", "i", "n", "u", "x",
    "_", "a", "m", "d", "6", "4", "/", "m", "p", "l", "s">>

\* C13: on every supported platform and for every tag, the archive looked up
\* is mpls_<tag without its prefix character>_<os>_<arch>.<ext> (zip on
\* windows, tar.gz on linux and darwin), the download is unpacked as that
\* kind of archive into mpls_<...>_<os>_<arch>, and the executable is
\* <that directory>/mpls; the asset is found exactly if an asset of the
\* release has that very name, and it is the first such asset; v1.2.3 on
\* (linux, amd64) gives the names of the example.
C13_NameDerivation ==
  \A i \in Instances : \A e \in Events(i) :
    /\ e.op = "exists" => e.path = ExecutableOf(ReleaseOf(i))
    /\ e.op = "find_asset" =>
         /\ e.name = ArchivedOf(ReleaseOf(i))
         /\ e.res.some <=>
              \E k \in DOMAIN ReleaseOf(i).assets :
                ReleaseOf(i).assets[k].name = ArchivedOf(ReleaseOf(i))
         /\ e.res.some => e.res.val.name = ArchivedOf(ReleaseOf(i))
         /\ (ReleaseOf(i).version = <<"v", "1", ".", "2", ".", "3">>
               /\ os = "Linux" /\ arch = "X8664")
              => e.name = Example_archive
    /\ e.op = "download_file" =>
         /\ e.dest = UnarchivedOf(ReleaseOf(i))
         /\ e.file_type = IF os = "Windows" THEN "Zip" ELSE "GzipTar"
         /\ e.url = <<"u", ":">> \o ArchivedOf(ReleaseOf(i))
    /\ e.op = "make_file_executable" =>
         /\ e.path = ExecutableOf(ReleaseOf(i))
         /\ (ReleaseOf(i).version = <<"v", "1", ".", "2", ".", "3">>
               /\ os = "Linux" /\ arch = "X8664")
              => e.path = Example_executable

C13_Witness ==
  /\ Done("a")
  /\ result["a"].val.ok
  /\ language_server_path["a"] = Some(Example_executable)
  /\ \E e \in EventsOf("a", "download_file") :
       e.url = <<"u", ":">> \o Example_archive /\ e.res.ok
  /\ Len(ReleaseOf("a").assets) = 24

\* the current call of instance i follows a call of i that returned an error
AfterFailure(i) == i = "a" /\ calls >= 2 /\ pc[i] # "idle" /\ ~prev_ok[i].some

\* the operations of the log of instance i, in order
OpSeq(i) == [k \in DOMAIN log[i] |-> log[i][k].op]

\* op is at position k of the log of instance i, if the log is that long
OpAt(i, k, op) == k \in DOMAIN log[i] => log[i][k].op = op

\* C14: the call that follows a failed call starts with no cached path and
\* runs the check order from its start: the ambient lookup first, then, when
\* nothing is found, the CheckingForUpdate status and the registry query,
\* then the online provisioner if the registry answered and the offline one
\* if not; it does not return the earlier failure.
C14_FailureNotSticky ==
  \A i \in Instances :
    AfterFailure(i) =>
      /\ pre[i] = None
      /\ pc[i] = "which" <=> log[i] = <<>>
      /\ OpAt(i, 1, "which")
      /\ Len(log[i]) >= 2 =>
           IF log[i][1].res.some
           THEN log[i] = <<log[i][1], Status("None")>>
           ELSE /\ log[i][2] = Status("CheckingForUpdate")
                /\ OpAt(i, 3, "latest_github_release")
                /\ Len(log[i]) >= 4 =>
                     log[i][4].op =
                       IF log[i][3].res.ok THEN "when_online" ELSE "when_offline"
                /\ Len(log[i]) >= 5 =>
                     \/ log[i][5].op = (IF log[i][3].res.ok THEN "exists" ELSE "read_dir")
                     \/ /\ platform(os, arch) = Err(UnsupportedMsg(arch))
                        /\ log[i][5] = Status("Failed") @@ [msg |-> UnsupportedMsg(arch)]

\* a call that follows a failed call downloads the language server and succeeds
C14_Witness ==
  /\ AfterFailure("a")
  /\ Done("a")
  /\ result["a"].val.ok
  /\ \E e \in EventsOf("a", "download_file") : e.res.ok
  /\ language_server_path["a"].some

\* how many events of the log of instance i are the operation op
Count(i, op) == Cardinality({k \in DOMAIN log[i] : log[i][k].op = op})

\* the call of instance i ended Resolved: it returned the command of the
\* cached path
Resolved(i) == Done(i) /\ result[i].val.ok /\ language_server_path[i].some

\* the call of instance i ended Failed: it returned an error, nothing cached
\* by it
Failed(i) == Done(i) /\ ~result[i].val.ok /\ language_server_path[i] = pre[i]

\* C15 (as claimed): a call makes at most one ambient lookup, one registry
\* query, one download and one directory scan, never both a download and a
\* directory scan, and it ends Resolved or Failed.
C15_NothingRetried ==
  \A i \in Instances :
    /\ Count(i, "which") <= 1
    /\ Count(i, "latest_github_release") <= 1
    /\ Count(i, "download_file") <= 1
    /\ Count(i, "read_dir") <= 1
    /\ ~(Count(i, "download_file") > 0 /\ Count(i, "read_dir") > 0)
    /\ Over(i) => Resolved(i) \/ Failed(i)

\* the directories of dir named mpls_<major>.<minor>.<patch>_<os>_<arch> for
\* the current platform
MatchingDirs(dir) ==
  {d \in dir :
     /\ d.kind = "dir" /\ d.utf8
     /\ \E t \in Triples :
          d.name = Named(Ver(t[1], t[2], t[3]), platform(os, arch).val[1],
                         platform(os, arch).val[2], <<>>)}

\* the current call of instance i went through the offline provisioner
Offline(i) == "read_dir" \in Ops(i)

\* C16 (as claimed): the path the offline provisioner passes to
\* make_file_executable, and the path it caches, is <name>/mpls for the name
\* of a matching directory of the working directory.
C16_PathFromDirectoryName ==
  \A i \in Instances :
    Offline(i) =>
      /\ \A e \in EventsOf(i, "make_file_executable") :
           \E d \in MatchingDirs(fs) : e.path = InDir(d.name)
      /\ (Done(i) /\ result[i].val.ok) =>
           \E d \in MatchingDirs(fs) : language_server_path[i] = Some(InDir(d.name))

\* C17 (as claimed): the scan of the working directory ends with a path or
\* an error value; the parse of a captured digit run never panics.
C17_ParseNeverPanics ==
  \A i \in Instances :
    /\ pc[i] # "panicked"
    /\ (Offline(i) /\ result[i].some) => ~IsPanic(result[i].val)

\* find_language_server returned Ok(()) in the call of instance i that is over
FoundOk(i) == Over(i) /\ log[i][Len(log[i])] = Status("None")

\* C18: when find_language_server has returned Ok(()), by the cached path,
\* the ambient executable, the reuse of a download, a download or the
\* offline provisioner, language_server_path is set and the call returns
\* the command of that path: the expect of line 188 does not panic.
C18_PathSetOnOk ==
  \A i \in Instances :
    /\ FoundOk(i) =>
         /\ language_server_path[i].some
         /\ result[i] = Some(Ok(Command(language_server_path[i].val)))
         /\ \/ log[i] = <<Status("None")>> /\ pre[i].some
            \/ \E e \in EventsOf(i, "which") : e.res.some
            \/ \E e \in EventsOf(i, "make_file_executable") : e.res.ok
    /\ result[i].some => result[i].val # Panic(ExpectMsg)

\* the offline provisioner returned Ok(()) in the second call of an instance
C18_Witness ==
  /\ FoundOk("a")
  /\ Offline("a")
  /\ calls = 2
  /\ result["a"].val.ok

(***************************************************************************)
(* A fresh instance after an online installation: instance "a" makes one   *)
(* call; once that call has provisioned a release through when_online,     *)
(* instance "b", created by Mpls::new in the same working directory and on *)
(* the same platform, makes one call.                                      *)
(***************************************************************************)
\* the first call of instance i
CallOnce(i) == pc[i] = "idle" /\ Call(i)

\* the last call of instance j provisioned a release through when_online
ProvisionedOnline(j) ==
  /\ Done(j)
  /\ result[j].val.ok
  /\ "when_online" \in Ops(j)

\* the first call of instance i, made after instance j provisioned online
CallFresh(i, j) == ProvisionedOnline(j) /\ CallOnce(i)

NextRecover ==
  \/ CallOnce("a")
  \/ Which("a")
  \/ LatestRelease("a")
  \/ OnlineExists("a")
  \/ OnlineReuse("a")
  \/ OnlineFindAsset("a")
  \/ OnlineDownload("a")
  \/ OnlineMakeExecutable("a")
  \/ OfflineScan("a")
  \/ OfflineMakeExecutable("a")
  \/ CallFresh("b", "a")
  \/ Which("b")
  \/ LatestRelease("b")
  \/ OnlineExists("b")
  \/ OnlineReuse("b")
  \/ OnlineFindAsset("b")
  \/ OnlineDownload("b")
  \/ OnlineMakeExecutable("b")
  \/ OfflineScan("b")
  \/ OfflineMakeExecutable("b")

SpecRecover == Init /\ [][NextRecover]_vars

\* the version triple of the release instance j provisioned
ProvisionedTriple(j) ==
  CHOOSE t \in Triples : ReleaseOf(j).version = <<"v">> \o Ver(t[1], t[2], t[3])

\* no directory of the current platform in dir has a version above t
NoHigher(dir, t) ==
  \A u \in Installed(dir) : u \in SmallTriples /\ TripleLeq(u, t)

\* the call of instance i went offline in a working directory it can read:
\* the registry was unreachable, no ambient executable was found, read_dir
\* and make_file_executable did not fail and every name is valid UTF-8
Recovering(i) ==
  /\ Offline(i)
  /\ \A e \in Events(i) :
       e.op \in {"read_dir", "make_file_executable"} => e.res.ok
  /\ \A d \in fs : d.utf8

\* C19 (as claimed): after instance "a" provisioned a release online, the
\* call of the fresh instance "b" that finds the registry unreachable and no
\* ambient executable resolves through the offline provisioner, and when no
\* directory of a higher version is installed it returns the path that "a"
\* returned.
C19_OfflineRecovery ==
  (ProvisionedOnline("a") /\ Recovering("b")
     /\ pc["b"] \in {"done", "panicked"}) =>
    /\ Resolved("b")
    /\ NoHigher(fs, ProvisionedTriple("a")) =>
         /\ language_server_path["b"] = language_server_path["a"]
         /\ result["b"] = result["a"]

(***************************************************************************)
(* Two instances in one working directory: "a" and "b" are separate Mpls   *)
(* values in separate extension hosts; each makes one call, and the host   *)
(* and filesystem operations of the two calls interleave. Nothing is       *)
(* installed when they start. What zed::download_file has unpacked so far  *)
(* is on disk, for the other instance to see, before the call returns.     *)
(***************************************************************************)
\* when_online, line 111: zed::download_file is unpacking the archive and has
\* not returned; the directory, or the directory and its executable, appear
OnlineUnpacking(i) ==
  /\ pc[i] = "download"
  /\ LET p == platform(os, arch)
         dest == unarchived_asset_name(release[i].val.val.version, p.val[1], p.val[2])
     IN  /\ \E exe \in BOOLEAN :
              fs' = unpacked(fs, dest, exe \/ exists(fs, executable[i].val))
         /\ fs' # fs
  /\ UNCHANGED <<os, arch, language_server_path, pc, calls, log, result, release,
                 executable, pre, prev_ok, fs_at_call>>

InitRace ==
  /\ \E p \in Platforms : os = p[1] /\ arch = p[2]
  /\ fs = {}
  /\ language_server_path = [i \in Instances |-> new.language_server_path]
  /\ pc = [i \in Instances |-> "idle"]
  /\ calls = 0
  /\ log = [i \in Instances |-> <<>>]
  /\ result = [i \in Instances |-> None]
  /\ release = [i \in Instances |-> None]
  /\ executable = [i \in Instances |-> None]
  /\ pre = [i \in Instances |-> None]
  /\ prev_ok = [i \in Instances |-> None]
  /\ fs_at_call = [i \in Instances |-> {}]

NextRace ==
  \E i \in Instances :
    \/ CallOnce(i)
    \/ Which(i)
    \/ LatestRelease(i)
    \/ OnlineExists(i)
    \/ OnlineReuse(i)
    \/ OnlineFindAsset(i)
    \/ OnlineUnpacking(i)
    \/ OnlineDownload(i)
    \/ OnlineMakeExecutable(i)
    \/ OfflineScan(i)
    \/ OfflineMakeExecutable(i)

SpecRace == InitRace /\ [][NextRace]_vars

\* the call of instance i took the reuse branch of line 94: it passed the
\* path to make_file_executable without a download
Reused(i) ==
  \/ pc[i] = "reuse"
  \/ /\ "when_online" \in Ops(i)
     /\ "make_file_executable" \in Ops(i)
     /\ "download_file" \notin Ops(i)

\* the download of instance j into the directory of path has finished
Downloaded(j, path) ==
  \E e \in EventsOf(j, "download_file") : e.res.ok /\ InDir(e.dest) = path

\* instance j is in zed::download_file for the directory of path, or it has
\* returned from it
Downloading(j, path) ==
  \/ pc[j] = "download" /\ executable[j] = Some(path)
  \/ \E e \in EventsOf(j, "download_file") : InDir(e.dest) = path

\* C20 (as claimed): an instance takes the reuse branch only for a path
\* whose download by the other instance had finished.
C20_ReuseOnlyAfterDownload ==
  \A i \in Instances :
    Reused(i) =>
      \E e \in EventsOf(i, "exists") :
        /\ e.res = Ok(TRUE)
        /\ \E j \in Instances \ {i} : Downloaded(j, e.path)

\* an instance takes the reuse branch only for a path that the other
\* instance has begun to download
ReuseOnlyAfterUnpacking ==
  \A i \in Instances :
    Reused(i) =>
      \E e \in EventsOf(i, "exists") :
        /\ e.res = Ok(TRUE)
        /\ \E j \in Instances \ {i} : Downloading(j, e.path)

\* an instance that is past the check of line 94 and the asset lookup calls
\* download_file as its next step, whatever has appeared on disk since
NoSecondCheck ==
  \A i \in Instances :
    (pc[i] = "download" /\ pc'[i] # "download") =>
      /\ Count(i, "download_file") = 0
      /\ \E k \in DOMAIN log'[i] :
           /\ log'[i][k].op = "download_file"
           /\ InDir(log'[i][k].dest) = executable[i].val

\* C20: two instances that resolve in the same working directory are not
\* excluded from downloading together: an instance skips its download only
\* if the other instance had begun its download, and put the executable on
\* disk, when it checked the disk, and once past that check it downloads
\* whatever the other instance has unpacked since.
C20_NoMutualExclusion == []ReuseOnlyAfterUnpacking /\ [][NoSecondCheck]_vars

\* both instances passed the check before either download finished, "a" has
\* unpacked the directory with its executable and "b" is about to download
\* the same release into it
C20_Witness ==
  /\ pc["a"] = "downloaded"
  /\ pc["b"] = "download"
  /\ \A i \in Instances :
       /\ \E e \in EventsOf(i, "which") : ~e.res.some
       /\ \E e \in EventsOf(i, "exists") : e.res = Ok(FALSE)
  /\ ReleaseOf("a") = ReleaseOf("b")
  /\ Downloaded("a", executable["b"].val)
  /\ exists(fs, executable["b"].val)

====
